---------------------------- MODULE Spec2Model ----------------------------
(***************************************************************************)
(* Colour-density estimation and joint-probability synthesis of libseg     *)
(* (src/main.cc).                                                          *)
(*                                                                         *)
(* Numbers.  The program computes in float/double.  Every value it        *)
(* produces is a quotient of natural numbers (a histogram count over a     *)
(* sample count, or a product of three such), so a value is modelled as    *)
(* the exact fraction [num, den].  den = 0 stands for the outcome of a     *)
(* division by zero (NaN or Inf).  Rounding is not modelled.               *)
(*                                                                         *)
(* Memory.  A buffer is a sequence; element i of the C array is element    *)
(* i + 1 of the sequence.  The functions take raw pointers, so a buffer's  *)
(* length is a fact about the caller's allocation that the callee cannot   *)
(* see.                                                                    *)
(***************************************************************************)
EXTENDS Integers, Sequences, FiniteSets, TLC

\* ------------------------------------------------------------- bounds
\* The largest number of pixels W*H of an image given to ImageProbability
\* or loaded by main.
MaxPixels == 3
\* The largest number of pixels W*H of an image given to
\* SaveForegroundBackgroundDensities.
MaxSavePixels == 2

\* ---------------------------------------------------- program constants
\* A channel has three of them (Lab): the loops "i < 3".
NumChannels == 3
\* cv::threshold(..., 1, 255, THRESH_BINARY_INV): the threshold ...
ThreshLevel == 1
\* ... and the value given to the pixels the user drew.
ThreshMax == 255
\* A Density has one entry per 8-bit value (design document, section 3;
\* the estimator is declared in kde.h).
NumBins == 256
\* Half-width of the median window of the smoothing pass (design document,
\* section 4.1 step 2; main.cc names the flag median_filter).
MedianRadius == 1

Bins == 0 .. (NumBins - 1)
Chan == 1 .. NumChannels

\* ---------------------------------------------------------- input sets
\* The colours a pixel may have, as (L, a, b) triples of uint8_t.
Palette == { <<0, 10, 255>>, <<255, 11, 0>> }
\* The values of a binarized mask (0: not drawn, 255: drawn).
MaskValues == {0, ThreshMax}
\* What a read past the end of a buffer may return.
StrayBytes == {0, 255}
\* The image shapes <<W, H>> of at most n pixels.  The functions use W and
\* H only through W*H, so of two transposed shapes the wider one is kept.
Shapes(n) == { d \in (1 .. n) \X (1 .. n) : d[1] * d[2] <= n /\ d[1] >= d[2] }
Dims == Shapes(MaxPixels)
SaveDims == Shapes(MaxSavePixels)
\* The grey values of a scribble image before it is binarized.
ScribbleValues == {ThreshLevel, ThreshLevel + 1}
\* The policies for a mask that selects no pixel.
EmptyPolicies == {"uniform", "zero"}

\* The three channel buffers of an image given as a sequence of colours.
Split(colours) == [c \in Chan |-> [i \in 1 .. Len(colours) |-> colours[i][c]]]

Images(n) == { Split(cs) : cs \in [1 .. n -> Palette] }
Masks(n) == [1 .. n -> MaskValues]

VARIABLES
    pc,             \* where the caller (or main) stands
    W, H,           \* the dimensions passed to the functions
    channels,       \* const uint8_t* channels[3]: the three buffers
    fg, bg,         \* the foreground and background mask buffers
    median_filter,  \* the smoothing flag the caller holds
    emptyPolicy,    \* the estimator's policy for an empty mask
    probs,          \* ImageProbability's local: the three densities
    outimg,         \* the output buffer, followed by one guard cell
    nwrites,        \* how often each cell of outimg was written
    fg_prob,        \* SaveForegroundBackgroundDensities' locals
    bg_prob,
    file,           \* the lines written to fname
    log,            \* the calls and checks made, in order
    oob,            \* some read went past the end of a buffer
    img,            \* main: the decoded image
    scribble_fg,    \* main: the scribble images
    scribble_bg

vars == << pc, W, H, channels, fg, bg, median_filter, emptyPolicy, probs,
           outimg, nwrites, fg_prob, bg_prob, file, log, oob,
           img, scribble_fg, scribble_bg >>

\* ------------------------------------------------------------ fractions
Frac(n, d) == [num |-> n, den |-> d]
\* An indeterminate double (new double[W*H] is not initialized).
Uninit == Frac(0, 0)
NonNeg(x) == x.den > 0 /\ x.num >= 0
FracEq(x, y) == x.den > 0 /\ y.den > 0 /\ x.num * y.den = y.num * x.den
Mul3(x, y, z) == Frac(x.num * y.num * z.num, x.den * y.den * z.den)

\* A Density: the numerators of the bins over one denominator.
At(density, v) == Frac(density.num[v], density.den)

\* ---------------------------------------------------- density estimator
\* Step 1: the count histogram, scanning pixels 0 .. n-1.
RECURSIVE Histogram(_, _, _)
Histogram(data, mask, n) ==
    IF n = 0 THEN [v \in Bins |-> 0]
    ELSE LET h == Histogram(data, mask, n - 1)
         IN  IF mask[n] # 0 THEN [h EXCEPT ![data[n]] = @ + 1] ELSE h

\* The number of sampled pixels.
RECURSIVE SampleCount(_, _)
SampleCount(mask, n) ==
    IF n = 0 THEN 0
    ELSE SampleCount(mask, n - 1) + (IF mask[n] # 0 THEN 1 ELSE 0)

\* Step 2: a windowed median over the value axis; at the two ends of the
\* axis the border bin is repeated.
Clamp(v) == IF v < 0 THEN 0 ELSE IF v > NumBins - 1 THEN NumBins - 1 ELSE v

Window(h, v) ==
    [k \in 1 .. (2 * MedianRadius + 1) |-> h[Clamp(v - MedianRadius + k - 1)]]

Median(w) ==
    CHOOSE x \in {w[k] : k \in DOMAIN w} :
        /\ Cardinality({k \in DOMAIN w : w[k] < x}) <= MedianRadius
        /\ Cardinality({k \in DOMAIN w : w[k] <= x}) >= MedianRadius + 1

MedianFilter(h) == [v \in Bins |-> Median(Window(h, v))]

\* ColorChannelKDE(data, mask, W, H, median_filter, &target_prob), declared
\* in kde.h: steps 1 to 4 of the design document's density estimator
\* (histogram, optional smoothing, division by the sample count, and the
\* policy for an empty mask).
ColorChannelKDE(data, mask, w, h, smooth) ==
    LET hist  == Histogram(data, mask, w * h)
        count == SampleCount(mask, w * h)
    IN  IF count = 0
        THEN IF emptyPolicy = "uniform"
             THEN [num |-> [v \in Bins |-> 1], den |-> NumBins]
             ELSE [num |-> [v \in Bins |-> 0], den |-> 1]
        ELSE [num |-> IF smooth THEN MedianFilter(hist) ELSE hist,
              den |-> count]

\* What the callee sees of a buffer when it scans n elements: the buffer,
\* and past its end whatever the memory there holds.
Views(buf, n) ==
    IF Len(buf) >= n THEN { SubSeq(buf, 1, n) }
    ELSE { buf \o t : t \in [1 .. (n - Len(buf)) -> StrayBytes] }

Short(buf, n) == Len(buf) < n

\* ------------------------------------------------------ ImageProbability
\* Lines 102-105 with the smoothing off.
EstimateProbs_Unsmoothed(chs, mask, w, h) ==
    [c \in Chan |-> ColorChannelKDE(chs[c], mask, w, h, FALSE)]

\* Lines 102-105: one density per channel, all with the same mask, smoothed.
EstimateProbs(chs, mask, w, h) ==
    [c \in Chan |-> ColorChannelKDE(chs[c], mask, w, h, TRUE)]

\* Lines 110-112 with channel 1's value used for the third lookup.
PixelProb_WrongIndex(p, chs, i) ==
    Mul3(At(p[1], chs[1][i]), At(p[2], chs[2][i]), At(p[3], chs[2][i]))

\* Lines 110-112: the product of the three lookups for pixel i.
PixelProb(p, chs, i) ==
    Mul3(At(p[1], chs[1][i]), At(p[2], chs[2][i]), At(p[3], chs[3][i]))

\* Lines 107-114, pixels 1 .. n, on the pair (buffer, write counts).
RECURSIVE FillFrom(_, _, _, _, _)
FillFrom(first, p, chs, n, out) ==
    IF n < first THEN out
    ELSE LET prev == FillFrom(first, p, chs, n - 1, out)
         IN  [buf |-> [prev.buf EXCEPT ![n] = PixelProb(p, chs, n)],
              cnt |-> [prev.cnt EXCEPT ![n] = @ + 1]]

\* The loop stopping one pixel early (i < W*H - 1).
Fill_StopsEarly(p, chs, n, out) == FillFrom(1, p, chs, n - 1, out)

\* The loop starting at pixel 1 instead of 0.
Fill_SkipsFirst(p, chs, n, out) == FillFrom(2, p, chs, n, out)

\* Lines 107-114: for (int i = 0; i < W*H; ++i) outimg[i] = prob.
Fill(p, chs, n, out) == FillFrom(1, p, chs, n, out)

\* The ColorChannelKDE calls of lines 103-105, as log entries.
KdeCalls(chs, mask, smooth) ==
    [c \in Chan |-> [op |-> "ColorChannelKDE", channel |-> c,
                     data |-> chs[c], mask |-> mask, smooth |-> smooth]]

\* ImageProbability(channels, mask, W, H, outimg), lines 97-115.  cv and mv
\* are what the scans see of the channel buffers and of the mask.
ImageProbability(chs, mask, w, h) ==
    \E cv \in Views(chs[1], w * h) \X Views(chs[2], w * h) \X Views(chs[3], w * h),
       mv \in Views(mask, w * h) :
        LET p   == EstimateProbs(cv, mv, w, h)
            res == Fill(p, cv, w * h, [buf |-> outimg, cnt |-> nwrites])
        IN  /\ probs' = p
            /\ outimg' = res.buf
            /\ nwrites' = res.cnt
            /\ oob' = (oob \/ Short(mask, w * h)
                           \/ \E c \in Chan : Short(chs[c], w * h))
            /\ log' = log \o KdeCalls(chs, mask, TRUE)
                          \o << [op |-> "map", mask |-> mask] >>

\* ------------------------------------- SaveForegroundBackgroundDensities
\* Lines 77-81 with the background densities taken from the foreground mask.
Densities_SameMask(chs, fgm, bgm, w, h, smooth) ==
    [fg_prob |-> [c \in Chan |-> ColorChannelKDE(chs[c], fgm, w, h, smooth)],
     bg_prob |-> [c \in Chan |-> ColorChannelKDE(chs[c], fgm, w, h, smooth)]]

\* Lines 77-81: fg_prob[i] and bg_prob[i] for the three channels.
Densities(chs, fgm, bgm, w, h, smooth) ==
    [fg_prob |-> [c \in Chan |-> ColorChannelKDE(chs[c], fgm, w, h, smooth)],
     bg_prob |-> [c \in Chan |-> ColorChannelKDE(chs[c], bgm, w, h, smooth)]]

\* The calls of lines 78-81 in the order the loop makes them.
SaveKdeCalls(chs, fgm, bgm, smooth) ==
    [j \in 1 .. (2 * NumChannels) |->
        LET c == (j + 1) \div 2
        IN  [op |-> "ColorChannelKDE", channel |-> c, data |-> chs[c],
             mask |-> IF j % 2 = 1 THEN fgm ELSE bgm, smooth |-> smooth]]

\* operator<<(float): six significant digits.  The text is modelled as the
\* rounded mantissa and the decimal exponent; a NaN or Inf prints as text.
RECURSIVE Scale(_, _, _)
Scale(n, d, k) ==
    IF n * 10 >= 1000000 * d THEN [mant |-> (2 * n + d) \div (2 * d), exp |-> 0 - k]
    ELSE Scale(n * 10, d, k + 1)

FormatFloat(x) ==
    IF x.den = 0 THEN [mant |-> 0, exp |-> 0, text |-> "nan"]
    ELSE IF x.num = 0 THEN [mant |-> 0, exp |-> 0, text |-> "0"]
    ELSE Scale(x.num, x.den, 0) @@ [text |-> "num"]

\* Lines 87-90: the entries of v in index order, a tab after each, then endl.
Line(v) ==
    [entries |-> [i \in 1 .. NumBins |->
                    [value |-> FormatFloat(At(v, i - 1)), sep |-> "\t"]],
     eol |-> "\n"]

\* Lines 84-92 with the loops exchanged: k outside, c inside.
FileLines_ClassMajor(fgp, bgp) ==
    [j \in 1 .. (2 * NumChannels) |->
        LET k == (j - 1) \div NumChannels
            c == ((j - 1) % NumChannels) + 1
        IN  Line(IF k = 0 THEN fgp[c] ELSE bgp[c])]

\* Lines 84-92: for c, for k: one line per density.
FileLines(fgp, bgp) ==
    [j \in 1 .. (2 * NumChannels) |->
        LET c == (j + 1) \div 2
            k == (j - 1) % 2
        IN  Line(IF k = 0 THEN fgp[c] ELSE bgp[c])]

\* SaveForegroundBackgroundDensities(channels, fg, bg, W, H, median_filter,
\* fname), lines 69-94.  The fstream truncates fname: file is what the
\* call leaves in it.
SaveForegroundBackgroundDensities(chs, fgm, bgm, w, h, smooth) ==
    LET d == Densities(chs, fgm, bgm, w, h, smooth)
    IN  /\ fg_prob' = d.fg_prob
        /\ bg_prob' = d.bg_prob
        /\ file' = FileLines(d.fg_prob, d.bg_prob)
        /\ log' = log \o SaveKdeCalls(chs, fgm, bgm, smooth)
                      \o << [op |-> "open"], [op |-> "close"] >>

\* ------------------------------------------------------------- callers
NoImage == [cols |-> 0, rows |-> 0, data |-> << >>]

\* A freshly allocated output buffer of n doubles and the cell after it.
NewBuffer(n) == [i \in 1 .. (n + 1) |-> Uninit]
NoWrites(n) == [i \in 1 .. (n + 1) |-> 0]

inputs == << W, H, channels, fg, bg, median_filter, emptyPolicy >>
mainvars == << img, scribble_fg, scribble_bg >>

NoResults ==
    /\ probs = << >>
    /\ fg_prob = << >>
    /\ bg_prob = << >>
    /\ file = << >>
    /\ log = << >>
    /\ oob = FALSE
    /\ img = NoImage
    /\ scribble_fg = NoImage
    /\ scribble_bg = NoImage

\* A caller of ImageProbability holding a W*H image, a mask of the same
\* size, a W*H output buffer, and the smoothing flag it would like applied.
Init ==
    /\ pc = "idle"
    /\ \E d \in Dims :
          /\ W = d[1]
          /\ H = d[2]
          /\ channels \in Images(d[1] * d[2])
          /\ fg \in Masks(d[1] * d[2])
          /\ outimg = NewBuffer(d[1] * d[2])
          /\ nwrites = NoWrites(d[1] * d[2])
    /\ bg = << >>
    /\ median_filter \in BOOLEAN
    /\ emptyPolicy \in EmptyPolicies
    /\ NoResults

\* The caller asks for the map of its mask (as line 182 does).
CallImageProbability ==
    /\ pc = "idle"
    /\ ImageProbability(channels, fg, W, H)
    /\ pc' = "mapped"
    /\ UNCHANGED << inputs, mainvars, fg_prob, bg_prob, file >>

Next == CallImageProbability

Spec == Init /\ [][Next]_vars

\* A caller of SaveForegroundBackgroundDensities holding a W*H image and
\* two masks of the same size.
SaveInit ==
    /\ pc = "idle"
    /\ \E d \in SaveDims :
          /\ W = d[1]
          /\ H = d[2]
          /\ channels \in Images(d[1] * d[2])
          /\ fg \in Masks(d[1] * d[2])
          /\ bg \in Masks(d[1] * d[2])
    /\ outimg = << >>
    /\ nwrites = << >>
    /\ median_filter \in BOOLEAN
    /\ emptyPolicy \in EmptyPolicies
    /\ NoResults

\* The caller exports the densities (as lines 174-177 would).
CallSave ==
    /\ pc = "idle"
    /\ SaveForegroundBackgroundDensities(channels, fg, bg, W, H, median_filter)
    /\ pc' = "saved"
    /\ UNCHANGED << inputs, mainvars, probs, outimg, nwrites, oob >>

SaveNext == CallSave

SaveSpec == SaveInit /\ [][SaveNext]_vars

\* A caller whose mask, or whose channel buffers, are not W*H long.
RawInit ==
    /\ pc = "idle"
    /\ \E d \in Dims, lc, lm \in 0 .. MaxPixels :
          /\ (lc = d[1] * d[2]) # (lm = d[1] * d[2])
          /\ W = d[1]
          /\ H = d[2]
          /\ channels \in Images(lc)
          /\ fg \in Masks(lm)
          /\ outimg = NewBuffer(d[1] * d[2])
          /\ nwrites = NoWrites(d[1] * d[2])
    /\ bg = << >>
    /\ median_filter = TRUE
    /\ emptyPolicy \in EmptyPolicies
    /\ NoResults

\* A read past the end of a buffer may also end the process.
ReadFault ==
    /\ pc = "idle"
    /\ \/ Short(fg, W * H)
       \/ \E c \in Chan : Short(channels[c], W * H)
    /\ pc' = "crashed"
    /\ oob' = TRUE
    /\ UNCHANGED << inputs, mainvars, probs, outimg, nwrites, fg_prob,
                    bg_prob, file, log >>

RawNext == CallImageProbability \/ ReadFault

RawSpec == RawInit /\ [][RawNext]_vars

\* ----------------------------------------------------------------- main
\* cv::threshold(src, dst, 1, 255, THRESH_BINARY_INV), lines 130 and 136.
Threshold(v) == IF v > ThreshLevel THEN 0 ELSE ThreshMax

Binarize(raw) == [i \in DOMAIN raw |-> Threshold(raw[i])]

MainInit ==
    /\ pc = "start"
    /\ W = 0
    /\ H = 0
    /\ channels = << >>
    /\ fg = << >>
    /\ bg = << >>
    /\ outimg = << >>
    /\ nwrites = << >>
    /\ median_filter = FALSE
    /\ emptyPolicy \in EmptyPolicies
    /\ NoResults

\* Lines 119-139: the image and the two scribbles are read, the scribbles
\* binarized, the image converted to Lab (its Lab values are the input).
MainLoad ==
    /\ pc = "start"
    /\ \E d, df, db \in Dims :
          \E lab \in Images(d[1] * d[2]),
             rawf \in [1 .. (df[1] * df[2]) -> ScribbleValues],
             rawb \in [1 .. (db[1] * db[2]) -> ScribbleValues] :
              /\ img' = [cols |-> d[1], rows |-> d[2], data |-> lab]
              /\ scribble_fg' = [cols |-> df[1], rows |-> df[2],
                                 data |-> Binarize(rawf)]
              /\ scribble_bg' = [cols |-> db[1], rows |-> db[2],
                                 data |-> Binarize(rawb)]
    /\ pc' = "loaded"
    /\ UNCHANGED << inputs, probs, outimg, nwrites, fg_prob, bg_prob, file,
                    log, oob >>

\* Lines 122, 129, 135: CHECK(x.data) fails when a file cannot be read.
MainLoadFails ==
    /\ pc = "start"
    /\ pc' = "aborted"
    /\ log' = log \o << [op |-> "CHECK"] >>
    /\ UNCHANGED << inputs, mainvars, probs, outimg, nwrites, fg_prob,
                    bg_prob, file, oob >>

\* Lines 142-147: W and H are the image's; the four CHECK_EQ.
MainCheckDims ==
    /\ pc = "loaded"
    /\ W' = img.cols
    /\ H' = img.rows
    /\ log' = log \o << [op |-> "CHECK_EQ"] >>
    /\ pc' = IF /\ scribble_fg.cols = img.cols
                /\ scribble_fg.rows = img.rows
                /\ scribble_bg.cols = img.cols
                /\ scribble_bg.rows = img.rows
             THEN "checked" ELSE "aborted"
    /\ UNCHANGED << channels, fg, bg, median_filter, emptyPolicy, mainvars,
                    probs, outimg, nwrites, fg_prob, bg_prob, file, oob >>

\* Lines 150-181: the channels are split, the masks copied, the output
\* buffer allocated.  The export of lines 173-178 is under if (false).
MainSplit ==
    /\ pc = "checked"
    /\ channels' = img.data
    /\ fg' = scribble_fg.data
    /\ bg' = scribble_bg.data
    /\ outimg' = NewBuffer(W * H)
    /\ nwrites' = NoWrites(W * H)
    /\ pc' = "ready"
    /\ UNCHANGED << W, H, median_filter, emptyPolicy, mainvars, probs,
                    fg_prob, bg_prob, file, log, oob >>

\* Line 182: ImageProbability(channels, fg.get(), W, H, fg_prob.get()).
MainImageProbability ==
    /\ pc = "ready"
    /\ ImageProbability(channels, fg, W, H)
    /\ pc' = "mapped"
    /\ UNCHANGED << inputs, mainvars, fg_prob, bg_prob, file >>

\* Lines 185-192: the map is displayed and main returns.
MainShow ==
    /\ pc = "mapped"
    /\ log' = log \o << [op |-> "ImageSC"] >>
    /\ pc' = "done"
    /\ UNCHANGED << inputs, mainvars, probs, outimg, nwrites, fg_prob,
                    bg_prob, file, oob >>

MainNext ==
    \/ MainLoad
    \/ MainLoadFails
    \/ MainCheckDims
    \/ MainSplit
    \/ MainImageProbability
    \/ MainShow

MainSpec == MainInit /\ [][MainNext]_vars

\* ---------------------------------------------------------- properties
Pixels == 1 .. (W * H)
Sampled(mask) == { i \in Pixels : mask[i] # 0 }
\* The pixels of channel c with value v that the mask selects.
Hits(c, mask, v) == { i \in Sampled(mask) : channels[c][i] = v }

\* C1: after ImageProbability, for every pixel i, outimg[i] is the product
\* density_0[channels[0][i]] * density_1[channels[1][i]] *
\* density_2[channels[2][i]], where density_c is what the estimator returns
\* for channel c with the one mask the caller passed, every channel with the
\* same mask and the same flag, and the raw value is the index.
C1_ProductOfChannelDensities ==
    pc = "mapped" =>
        \E b \in BOOLEAN :
            LET density == [c \in Chan |->
                              ColorChannelKDE(channels[c], fg, W, H, b)]
            IN  \A i \in Pixels :
                    /\ outimg[i].num = density[1].num[channels[1][i]]
                                     * density[2].num[channels[2][i]]
                                     * density[3].num[channels[3][i]]
                    /\ outimg[i].den = density[1].den * density[2].den
                                     * density[3].den

\* A map of two pixels of different colours, with different likelihoods,
\* one of them non-zero.
C1_Witness ==
    /\ pc = "mapped"
    /\ W * H >= 2
    /\ \E i, j \in Pixels :
          /\ channels[3][i] # channels[3][j]
          /\ outimg[i].num > 0
          /\ ~FracEq(outimg[i], outimg[j])

IsUniform(d) == d.den > 0 /\ \A v \in Bins : d.num[v] * NumBins = d.den
IsAllZero(d) == d.den > 0 /\ \A v \in Bins : d.num[v] = 0

C7_FlagDecidesSmoothing ==
    pc = "mapped" =>
        \A c \in Chan :
            probs[c] = ColorChannelKDE(channels[c], fg, W, H, median_filter)

\* C7 amended: ImageProbability has no smoothing parameter; whatever flag
\* the caller holds, the three densities it multiplies are the smoothed
\* ones, and the map is their product.
C7_AlwaysSmoothed ==
    pc = "mapped" =>
        /\ \A c \in Chan :
              probs[c] = ColorChannelKDE(channels[c], fg, W, H, TRUE)
        /\ \A i \in Pixels :
              outimg[i] = Mul3(At(probs[1], channels[1][i]),
                               At(probs[2], channels[2][i]),
                               At(probs[3], channels[3][i]))

\* A caller that wants no smoothing and gets a map of smoothed densities
\* that differ from the unsmoothed ones.
C7_Witness ==
    /\ pc = "mapped"
    /\ median_filter = FALSE
    /\ \E c \in Chan :
          probs[c] # ColorChannelKDE(channels[c], fg, W, H, FALSE)

\* C8: a call of ImageProbability writes each index of [0, W*H) exactly
\* once, with the value for that pixel of the row-major channel buffers,
\* every value >= 0; it writes nothing past W*H and leaves the channel
\* buffers and the mask as they were.
C8_WritesExactlyTheMap ==
    /\ [](pc = "mapped" =>
            /\ \A i \in Pixels :
                  /\ nwrites[i] = 1
                  /\ NonNeg(outimg[i])
                  /\ outimg[i] = Mul3(At(probs[1], channels[1][i]),
                                      At(probs[2], channels[2][i]),
                                      At(probs[3], channels[3][i]))
            /\ \A i \in DOMAIN outimg \ Pixels :
                  nwrites[i] = 0 /\ outimg[i] = Uninit)
    /\ [][pc' = "mapped" =>
            channels' = channels /\ fg' = fg /\ W' = W /\ H' = H]_vars

\* A map of two pixels, the guard cell behind it untouched.
C8_Witness ==
    /\ pc = "mapped"
    /\ W * H = 2
    /\ nwrites = << 1, 1, 0 >>
    /\ outimg[2].num > 0

\* The sum of f over lo .. hi, and over all bins.
RECURSIVE SumOver(_, _, _)
SumOver(f, lo, hi) ==
    IF lo > hi THEN 0
    ELSE IF lo = hi THEN f[lo]
    ELSE LET mid == (lo + hi) \div 2
         IN  SumOver(f, lo, mid) + SumOver(f, mid + 1, hi)
Total(f) == SumOver(f, 0, NumBins - 1)

SumsToOne(d) ==
    /\ DOMAIN d.num = Bins
    /\ \A v \in Bins : d.num[v] >= 0
    /\ d.den > 0
    /\ Total(d.num) = d.den

IsKdeCall(e, c, mask) ==
    /\ e.op = "ColorChannelKDE"
    /\ e.channel = c
    /\ e.data = channels[c]
    /\ e.mask = mask
    /\ e.smooth = median_filter

\* C10: SaveForegroundBackgroundDensities makes its six estimator calls,
\* each with the caller's flag, before it opens the file; then it writes
\* six lines, channel 0 foreground, channel 0 background, channel 1
\* foreground, ..., each the 256 entries of that one density in increasing
\* bin order, every entry followed by a tab.
C10_SixLinesInOrder ==
    pc = "saved" =>
        /\ Len(log) = 2 * NumChannels + 2
        /\ \A c \in Chan :
              /\ IsKdeCall(log[2 * c - 1], c, fg)
              /\ IsKdeCall(log[2 * c], c, bg)
        /\ log[2 * NumChannels + 1].op = "open"
        /\ Len(file) = 2 * NumChannels
        /\ \A c \in Chan :
              LET f == ColorChannelKDE(channels[c], fg, W, H, median_filter)
                  b == ColorChannelKDE(channels[c], bg, W, H, median_filter)
              IN  /\ Len(file[2 * c - 1].entries) = NumBins
                  /\ Len(file[2 * c].entries) = NumBins
                  /\ \A v \in Bins :
                        /\ file[2 * c - 1].entries[v + 1] =
                              [value |-> FormatFloat(At(f, v)), sep |-> "\t"]
                        /\ file[2 * c].entries[v + 1] =
                              [value |-> FormatFloat(At(b, v)), sep |-> "\t"]
                  /\ file[2 * c - 1].eol = "\n"
                  /\ file[2 * c].eol = "\n"

\* A file whose six lines differ between the classes and between channels.
C10_Witness ==
    /\ pc = "saved"
    /\ Len(file) = 6
    /\ file[1] # file[2]
    /\ file[1] # file[3]
    /\ file[2] # file[4]

\* C5: a call whose mask or channel buffer is not W*H long is rejected with
\* a DimensionMismatch error before any element is read: nothing is read
\* past the end of a buffer and nothing is written.
C5_MismatchRejected ==
    (/\ pc # "idle"
     /\ \/ Len(fg) # W * H
        \/ \E c \in Chan : Len(channels[c]) # W * H)
    => /\ pc = "DimensionMismatch"
       /\ ~oob
       /\ \A i \in DOMAIN nwrites : nwrites[i] = 0

IsEstimatorCall(e) == e.op \in {"ColorChannelKDE", "map"}

\* Entry j of the log is the map of the given mask, made after the three
\* channel densities of that mask.
IsMapOf(j, mask) ==
    /\ log[j].op = "map"
    /\ log[j].mask = mask
    /\ \A c \in Chan :
          \E m \in 1 .. (j - 1) :
              /\ log[m].op = "ColorChannelKDE"
              /\ log[m].channel = c
              /\ log[m].mask = mask

\* C9: when main is done, a map was made for the foreground mask and one
\* for the background mask, each after the three densities of its class,
\* and no estimator ran before the dimension checks.
C9_OneMapPerClass ==
    pc = "done" =>
        /\ \E j, k \in DOMAIN log :
              j # k /\ IsMapOf(j, fg) /\ IsMapOf(k, bg)
        /\ \E q \in DOMAIN log :
              /\ log[q].op = "CHECK_EQ"
              /\ \A m \in DOMAIN log : IsEstimatorCall(log[m]) => q < m

============================================================================
